---- MODULE Spec2Model ----
(***************************************************************************)
(* Artifact search: the query router (router.py) and the search            *)
(* orchestrator ArtifactSearchEngine (search.py) over its four connectors. *)
(*                                                                         *)
(* A Python str is a sequence of one-character strings, so that lower(),   *)
(* split(), len() and the substring test `kw in s` are computed and not    *)
(* assumed.  The values of the closed enumerations are atoms.              *)
(***************************************************************************)
EXTENDS Integers, Sequences, FiniteSets, TLC

VARIABLES
  connectors,     \* ArtifactSearchEngine._connectors: the configured sources
  ai_configured,  \* Settings.is_azure_ai_configured()
  clients,        \* the sources whose connector holds an open _client
  pc,             \* where the running operation stands
  op,             \* the running operation and its arguments
  query,          \* SearchQuery.query of the running search / routing
  response,       \* what the classification backend answers to this query
  routed,         \* the RoutedQuery route_query returned
  tasks,          \* search_tasks / results of asyncio.gather, in dispatch order
  result,         \* what the last operation returned or raised
  calls,          \* calls received by connector stubs and backends in this operation
  merged,         \* all_artifacts before the sort
  ranked,         \* outcome of all_artifacts.sort(...)
  summary_answer, \* how the summarization backend answered the running search
  attempt,        \* FigmaConnector._request_with_retry: the loop variable
  responses,      \* how its client.request calls ended, in order
  wait_times,     \* the asyncio.sleep(wait_time) calls it has made, in order
  last_exception, \* its local last_exception
  file_cache,     \* figma.py: the module-level _file_cache
  clock,          \* what time() returns
  callers,        \* the _get_file_data calls in progress or last ended
  fetched         \* the fetches of _get_file_data that have succeeded, in order

\* the state of the Figma connector's request and cache helpers
figma_vars ==
  <<attempt, responses, wait_times, last_exception, file_cache, clock, callers,
    fetched>>

vars == <<connectors, ai_configured, clients, pc, op, query, response, routed,
          tasks, result, calls, merged, ranked, summary_answer,
          attempt, responses, wait_times, last_exception, file_cache, clock,
          callers, fetched>>

----------------------------------------------------------------------------
(* models.py: the closed enumerations *)

AZURE_DEVOPS == "azure_devops"
FIGMA == "figma"
NOTION == "notion"
ICEPANEL == "icepanel"

\* list(AppSource): the members in definition order
AppSourceList == <<AZURE_DEVOPS, FIGMA, NOTION, ICEPANEL>>

AppSource == {AZURE_DEVOPS, FIGMA, NOTION, ICEPANEL}

ArtifactType ==
  {"requirement", "risk", "mitigation", "design", "architecture", "work_item",
   "test_case", "document"}

\* an absent created_at / updated_at (None); datetimes are the numbers above it
NoTime == 0

Artifact(src, id, updated_at, created_at) ==
  [id |-> id, source |-> src, updated_at |-> updated_at, created_at |-> created_at]

----------------------------------------------------------------------------
(* Python str and list operations used by the router *)

Range(s) == {s[i] : i \in DOMAIN s}

Min(a, b) == IF a < b THEN a ELSE b

\* s[:n]
FirstN(s, n) == SubSeq(s, 1, Min(n, Len(s)))

\* str.lower() on one character (the letters the inputs use)
LowerChar(c) ==
  CASE c = "A" -> "a" [] c = "B" -> "b" [] c = "C" -> "c" [] c = "D" -> "d"
    [] c = "E" -> "e" [] c = "F" -> "f" [] c = "G" -> "g" [] c = "H" -> "h"
    [] c = "I" -> "i" [] c = "J" -> "j" [] c = "K" -> "k" [] c = "L" -> "l"
    [] c = "M" -> "m" [] c = "N" -> "n" [] c = "O" -> "o" [] c = "P" -> "p"
    [] c = "Q" -> "q" [] c = "R" -> "r" [] c = "S" -> "s" [] c = "T" -> "t"
    [] c = "U" -> "u" [] c = "V" -> "v" [] c = "W" -> "w" [] c = "X" -> "x"
    [] c = "Y" -> "y" [] c = "Z" -> "z" [] OTHER -> c

\* str.lower()
Lower(s) == [i \in DOMAIN s |-> LowerChar(s[i])]

\* the characters str.split() treats as separators
IsSpace(c) == c \in {" ", "\t", "\n"}

\* `w in s` for two strings: w occurs in s as a contiguous substring
Contains(s, w) ==
  \E i \in 1..(Len(s) - Len(w) + 1) : SubSeq(s, i, i + Len(w) - 1) = w

\* str.split(): the maximal runs of non-space characters, in order
RECURSIVE SplitFrom(_, _, _, _)
SplitFrom(s, i, cur, acc) ==
  IF i > Len(s)
    THEN IF cur = <<>> THEN acc ELSE Append(acc, cur)
    ELSE IF IsSpace(s[i])
      THEN SplitFrom(s, i + 1, <<>>, IF cur = <<>> THEN acc ELSE Append(acc, cur))
      ELSE SplitFrom(s, i + 1, Append(cur, s[i]), acc)

Split(s) == SplitFrom(s, 1, <<>>, <<>>)

\* a router that keeps repeated entries
NoDedupe(xs) == xs

\* list(dict.fromkeys(xs)): duplicates dropped, first occurrences kept in order
RECURSIVE DedupeFrom(_, _, _)
DedupeFrom(xs, i, acc) ==
  IF i > Len(xs) THEN acc
  ELSE DedupeFrom(xs, i + 1,
                  IF xs[i] \in Range(acc) THEN acc ELSE Append(acc, xs[i]))

Dedupe(xs) == DedupeFrom(xs, 1, <<>>)

----------------------------------------------------------------------------
(* router.py: _fallback_route *)

DesignKeywords ==
  { <<"d","e","s","i","g","n">>,
    <<"u","i">>,
    <<"u","x">>,
    <<"w","i","r","e","f","r","a","m","e">>,
    <<"m","o","c","k","u","p">> }

ArchitectureKeywords ==
  { <<"a","r","c","h","i","t","e","c","t","u","r","e">>,
    <<"s","y","s","t","e","m">>,
    <<"c","o","m","p","o","n","e","n","t">>,
    <<"c","4">>,
    <<"d","i","a","g","r","a","m">> }

RiskKeywords ==
  { <<"r","i","s","k">>,
    <<"h","a","z","a","r","d">>,
    <<"h","a","r","m">>,
    <<"s","e","v","e","r","i","t","y">> }

MitigationKeywords ==
  { <<"m","i","t","i","g","a","t","i","o","n">>,
    <<"c","o","n","t","r","o","l">>,
    <<"m","e","a","s","u","r","e">>,
    <<"p","r","o","t","e","c","t","i","o","n">> }

RequirementKeywords ==
  { <<"r","e","q","u","i","r","e","m","e","n","t">>,
    <<"r","e","q">>,
    <<"s","t","o","r","y">>,
    <<"f","e","a","t","u","r","e">> }

DocumentKeywords ==
  { <<"d","o","c","u","m","e","n","t">>,
    <<"s","o","p">>,
    <<"p","r","o","c","e","d","u","r","e">>,
    <<"p","o","l","i","c","y">> }

WorkItemKeywords ==
  { <<"t","a","s","k">>,
    <<"b","u","g">>,
    <<"s","p","r","i","n","t">>,
    <<"w","o","r","k"," ","i","t","e","m">> }

stop_words ==
  { <<"t","h","e">>,
    <<"a">>,
    <<"a","n">>,
    <<"i","s">>,
    <<"a","r","e">>,
    <<"w","h","a","t">>,
    <<"w","h","e","r","e">>,
    <<"h","o","w">>,
    <<"c","a","n">>,
    <<"y","o","u">>,
    <<"g","e","t">>,
    <<"m","e">>,
    <<"f","i","n","d">>,
    <<"s","h","o","w">>,
    <<"r","e","l","a","t","e","d">>,
    <<"t","o">>,
    <<"t","h","i","s">>,
    <<"t","h","a","t">>,
    <<"f","o","r">>,
    <<"i","n">>,
    <<"o","n">>,
    <<"w","i","t","h">> }

\* [...][:5] at router.py:116 and router.py:181
SearchTermLimit == 5

\* len(word) > 2 at router.py:180
MinTermLen == 2

\* the fallback's default terms, router.py:187
DefaultTerms == << <<"r","i","s","k">>, <<"r","e","q","u","i","r","e","m","e","n","t">> >>

\* any(word in query_lower for word in [...])
GroupMatches(query_lower, keywords) ==
  \E word \in keywords : Contains(query_lower, word)

RoutedQuery(q, apps, types, terms) ==
  [original_query |-> q, target_apps |-> apps, artifact_types |-> types,
   search_terms |-> terms]

\* search terms cut to five words before the stop words are removed
FallbackTermsCutFirst(q) ==
  LET Keep(word) == Lower(word) \notin stop_words /\ Len(word) > MinTermLen
  IN SelectSeq(FirstN(Split(q), SearchTermLimit), Keep)

\* the fallback's search terms before the default, router.py:178-181
FallbackTerms(q) ==
  LET Keep(word) == Lower(word) \notin stop_words /\ Len(word) > MinTermLen
  IN FirstN(SelectSeq(Split(q), Keep), SearchTermLimit)

fallback_route(q) ==
  LET query_lower == Lower(q)
      hit(kw) == GroupMatches(query_lower, kw)
      both == <<AZURE_DEVOPS, NOTION>>
      apps ==
           (IF hit(DesignKeywords) THEN <<FIGMA>> ELSE <<>>)
        \o (IF hit(ArchitectureKeywords) THEN <<ICEPANEL>> ELSE <<>>)
        \o (IF hit(RiskKeywords) THEN both ELSE <<>>)
        \o (IF hit(MitigationKeywords) THEN both ELSE <<>>)
        \o (IF hit(RequirementKeywords) THEN both ELSE <<>>)
        \o (IF hit(DocumentKeywords) THEN <<NOTION>> ELSE <<>>)
        \o (IF hit(WorkItemKeywords) THEN <<AZURE_DEVOPS>> ELSE <<>>)
      types ==
           (IF hit(DesignKeywords) THEN <<"design">> ELSE <<>>)
        \o (IF hit(ArchitectureKeywords) THEN <<"architecture">> ELSE <<>>)
        \o (IF hit(RiskKeywords) THEN <<"risk">> ELSE <<>>)
        \o (IF hit(MitigationKeywords) THEN <<"mitigation">> ELSE <<>>)
        \o (IF hit(RequirementKeywords) THEN <<"requirement">> ELSE <<>>)
        \o (IF hit(DocumentKeywords) THEN <<"document">> ELSE <<>>)
        \o (IF hit(WorkItemKeywords) THEN <<"work_item">> ELSE <<>>)
      target_apps == Dedupe(IF apps = <<>> THEN AppSourceList ELSE apps)
      artifact_types ==
        Dedupe(IF types = <<>> THEN <<"document", "requirement">> ELSE types)
      search_terms == FallbackTerms(q)
  IN RoutedQuery(q, target_apps, artifact_types,
                 IF search_terms # <<>> THEN search_terms ELSE DefaultTerms)

----------------------------------------------------------------------------
(* router.py: route_query.  What the classification backend can answer.    *)
(*                                                                         *)
(* kind: "error"     the request (or building the client) raises           *)
(*       "empty"     message.content is None or ""                         *)
(*       "nonjson"   json.loads raises                                     *)
(*       "nonobject" the JSON text is an array or a scalar                 *)
(*       "object"    a JSON object; each of its three fields is            *)
(*                   [shape, items]: shape "missing" (key absent), "null"  *)
(*                   (null, false or 0), "num" (a non-zero number), "str"  *)
(*                   (items: its characters), "dict" (items: its keys) or  *)
(*                   "list" (items: its elements)                          *)
(* An element is [t, v]: t = "str" for a JSON string v, "num" for a number *)
(***************************************************************************)

Str(v) == [t |-> "str", v |-> v]
Num == [t |-> "num", v |-> "7"]

Missing == [shape |-> "missing", items |-> <<>>]
Null == [shape |-> "null", items |-> <<>>]
Number == [shape |-> "num", items |-> <<>>]
List(items) == [shape |-> "list", items |-> items]
Dict(keys) == [shape |-> "dict", items |-> keys]
\* a JSON string where a list is expected: iterating it yields its characters
Text(chars) == [shape |-> "str", items |-> [i \in DOMAIN chars |-> Str(chars[i])]]

Failure(kind) ==
  [kind |-> kind, target_apps |-> Missing, artifact_types |-> Missing,
   search_terms |-> Missing]

Object(apps, types, terms) ==
  [kind |-> "object", target_apps |-> apps, artifact_types |-> types,
   search_terms |-> terms]

\* result.get(key, []): an absent key reads as the empty list
Get(field) == IF field.shape = "missing" THEN List(<<>>) ELSE field

\* `for x in value` raises TypeError on None and on a number
Iterable(field) == field.shape \in {"list", "str", "dict"}

\* bool(value)
Truthy(field) ==
  CASE field.shape \in {"list", "str", "dict"} -> field.items # <<>>
    [] field.shape = "num" -> TRUE
    [] OTHER -> FALSE

\* a parse that keeps every string token, known or not
EnumMembers_unchecked(field, enum) ==
  LET IsStr(x) == x.t = "str"
      kept == SelectSeq(field.items, IsStr)
  IN [i \in DOMAIN kept |-> kept[i].v]

\* [Enum(x) for x in value if x in [e.value for e in Enum]]
EnumMembers(field, enum) ==
  LET Known(x) == x.t = "str" /\ x.v \in enum
      kept == SelectSeq(field.items, Known)
  IN [i \in DOMAIN kept |-> kept[i].v]

\* pydantic accepts search_terms: list[str] only for a list of strings
ValidTerms(field) ==
  field.shape = "list" /\ \A i \in DOMAIN field.items : field.items[i].t = "str"

\* whether the classifier path raises after json.loads (router.py:96-123);
\* whatever it raises is caught at router.py:125
parse_raises(resp) ==
  \/ ~Iterable(Get(resp.target_apps))
  \/ ~Iterable(Get(resp.artifact_types))
  \/ Truthy(Get(resp.search_terms)) /\ ~ValidTerms(Get(resp.search_terms))

\* the RoutedQuery of the classifier path, router.py:98-123
parse_response(q, resp) ==
  LET terms_raw == Get(resp.search_terms)
      apps0 == EnumMembers(Get(resp.target_apps), AppSource)
      types0 == EnumMembers(Get(resp.artifact_types), ArtifactType)
      target_apps == IF apps0 = <<>> THEN <<AZURE_DEVOPS, NOTION>> ELSE apps0
      artifact_types == IF types0 = <<>> THEN <<"document">> ELSE types0
      search_terms ==
        IF ~Truthy(terms_raw) THEN FirstN(Split(q), SearchTermLimit)
        ELSE [i \in DOMAIN terms_raw.items |-> terms_raw.items[i].v]
  IN RoutedQuery(q, target_apps, artifact_types, search_terms)

\* a router that asks the backend whatever the configuration
classifier_always_called(configured) == TRUE

\* whether route_query sends a request to the classification backend
classifier_called(configured) == configured

route_query(q, configured, resp) ==
  IF ~configured THEN fallback_route(q)
  ELSE IF resp.kind # "object" THEN fallback_route(q)
  ELSE IF parse_raises(resp) THEN fallback_route(q)
  ELSE parse_response(q, resp)

----------------------------------------------------------------------------
(* search.py: the ranking of the merged artifacts, search.py:99-103 *)

\* key=lambda a: a.updated_at or a.created_at or ""
\* a datetime is always true, so `or` skips exactly the absent timestamps;
\* is_time tells a datetime key from the str key ""
sort_key(a) ==
  IF a.updated_at # NoTime THEN [is_time |-> TRUE, t |-> a.updated_at]
  ELSE IF a.created_at # NoTime THEN [is_time |-> TRUE, t |-> a.created_at]
  ELSE [is_time |-> FALSE, t |-> NoTime]

\* list.sort compares keys with <; a datetime and a str do not compare
\* (TypeError).  A sort of two or more elements cannot end without comparing
\* a key of each kind present with one of the other kind.
sort_raises(xs) ==
  \E i, j \in DOMAIN xs : sort_key(xs[i]).is_time # sort_key(xs[j]).is_time

\* one step of the stable descending sort: x, which followed the elements of
\* acc in the input, goes behind every element whose key is not smaller
InsertDesc(acc, x) ==
  LET ahead == Cardinality({i \in DOMAIN acc : sort_key(acc[i]).t >= sort_key(x).t})
  IN SubSeq(acc, 1, ahead) \o <<x>> \o SubSeq(acc, ahead + 1, Len(acc))

RECURSIVE SortFrom(_, _, _)
SortFrom(xs, i, acc) ==
  IF i > Len(xs) THEN acc ELSE SortFrom(xs, i + 1, InsertDesc(acc, xs[i]))

\* all_artifacts.sort(key=..., reverse=True): stable, reverse keeps the
\* input order of equal keys
sorted_desc(xs) == SortFrom(xs, 1, <<>>)

\* the outcome of the sort statement: the ranked list, or TypeError
sort_outcome(xs) ==
  IF sort_raises(xs) THEN [kind |-> "raised", error |-> "TypeError", list |-> <<>>]
  ELSE [kind |-> "ok", error |-> "", list |-> sorted_desc(xs)]

----------------------------------------------------------------------------
(* search.py: _generate_summary, search.py:119-177 *)

NoSourcesSummary ==
  [text |-> "No configured data sources available for this query.", n |-> 0]
NoMatchSummary == [text |-> "No matching artifacts found.", n |-> 0]
\* f"Found {len(artifacts)} artifacts across multiple sources."
CountSummary(n) == [text |-> "Found {n} artifacts across multiple sources.", n |-> n]
\* response.choices[0].message.content: the backend's text, or None
BackendSummary(answer) ==
  IF answer = "text" THEN [text |-> "<backend text>", n |-> 0]
  ELSE [text |-> "None", n |-> 0]

\* whether _generate_summary sends a request to the summarization backend
summarizer_called(artifacts, configured) == artifacts # <<>> /\ configured

\* a summarizer whose failed request is not replaced by the template
generate_summary_unguarded(artifacts, configured, answer) ==
  IF artifacts = <<>> THEN NoMatchSummary
  ELSE IF ~configured THEN CountSummary(Len(artifacts))
  ELSE BackendSummary(answer)

\* answer: what the backend does when asked: "text", "none" (content is
\* None) or "error" (the request raises)
generate_summary(artifacts, configured, answer) ==
  IF artifacts = <<>> THEN NoMatchSummary
  ELSE IF ~configured THEN CountSummary(Len(artifacts))
  ELSE IF answer = "error" THEN CountSummary(Len(artifacts))
  ELSE BackendSummary(answer)

SummaryAnswers == {"text", "none", "error"}

----------------------------------------------------------------------------
(* The connectors behind the BaseConnector interface (connectors/base.py).  *)
(* A backend holds a fixed list of artifacts; a search returns a prefix of  *)
(* it.  The four connectors of the repository catch every upstream failure  *)
(* and return [] (e.g. notion.py:91-93); the interface also admits a        *)
(* connector whose search raises.                                           *)

\* the most artifacts one search call returns in the model
MaxArtifacts == 2

\* the timestamps of the i-th artifact of each backend: <<updated_at, created_at>>.
\* The Figma and IcePanel connectors set no created_at (figma.py:169-183,
\* icepanel.py:84-98); Figma stamps every node with the file's lastModified,
\* absent here.
Stamps(src, i) ==
  LET k == ((i - 1) % 3) + 1
  IN CASE src = AZURE_DEVOPS -> << <<3, 1>>, <<NoTime, 2>>, <<2, 2>> >>[k]
       [] src = FIGMA -> <<NoTime, NoTime>>
       [] src = NOTION -> << <<2, 1>>, <<2, 2>>, <<1, NoTime>> >>[k]
       [] OTHER -> << <<1, NoTime>>, <<NoTime, NoTime>>, <<1, NoTime>> >>[k]

StoreItem(src, i) == Artifact(src, i, Stamps(src, i)[1], Stamps(src, i)[2])

\* the first n artifacts of the backend of src
Store(src, n) == [i \in 1..n |-> StoreItem(src, i)]

Task(src, status, artifacts, upstream) ==
  [source |-> src, status |-> status, artifacts |-> artifacts, upstream |-> upstream]

Call(to, method) == [to |-> to, method |-> method]

\* how the upstream call of a connector can fail: the request raises, the
\* response is not 2xx (raise_for_status), or its payload is not what the
\* connector reads; the Figma connector also gives up after max_retries
\* attempts (figma.py:97-104)
UpstreamFailures(src) ==
  {"network_error", "http_error", "malformed"}
    \cup (IF src = FIGMA THEN {"retries_exhausted"} ELSE {})

UpstreamOutcomes(src) == {"ok"} \cup UpstreamFailures(src)

\* a connector that catches the HTTP errors only
search_catches_http_only(src, failure) ==
  failure \in {"network_error", "http_error"}

\* whether the except clause of search() catches the failure: each of the
\* four is `except Exception` around the whole body
search_catches(src, failure) == TRUE

\* `artifacts[:20]` (figma.py:194, icepanel.py:131)
ResultLimit == 20

\* the most items one upstream response holds in the model
MaxUpstream == 21

\* the number of artifacts search() returns when the upstream response holds
\* n matching items.  Figma and IcePanel slice the list they built
\* (`return artifacts[:20]`).  Notion asks for "page_size": 20 and Azure
\* DevOps asks for the details of work_items[:20], but both then turn every
\* item of the response they receive into an artifact and `return artifacts`
\* (notion.py:75-89, azure_devops.py:107-135).
search_returns(src, n) ==
  IF src \in {FIGMA, ICEPANEL} THEN Min(n, ResultLimit) ELSE n

\* search() of the connector of src: the artifacts made from an upstream
\* response of n matching items, or [] from the except clause
connector_search(src, upstream, n) ==
  IF upstream = "ok"
    THEN Task(src, "returned", Store(src, search_returns(src, n)), "ok")
  ELSE IF search_catches(src, upstream) THEN Task(src, "returned", <<>>, upstream)
  ELSE Task(src, "raised", <<>>, upstream)

----------------------------------------------------------------------------
(* connectors/figma.py: the file cache and the state of its helpers *)

\* the file keys in the model; the connector uses settings.figma_file_key
FileKeys == {"file_a", "file_b"}

\* `file_key in _file_cache` is false
NoEntry == [time |-> -1, data |-> -1]

\* the tuple (cached_time, cached_data) stored under a key
Entry(time, data) == [time |-> time, data |-> data]

\* the _get_file_data calls that can be in progress at once
Callers == 1..2

\* a _get_file_data call: where it stands ("fetching": awaiting
\* _request_with_retry), its file_key, its local now, the cache entry it
\* found under file_key, the requests it has issued and the data it returned
GetFileDataCall(at, key, now, seen, requests, file_data) ==
  [at |-> at, key |-> key, now |-> now, seen |-> seen, requests |-> requests,
   file_data |-> file_data]

\* a caller slot with no call yet
NoCall == GetFileDataCall("idle", "", -1, NoEntry, 0, -1)

NoException == "None"

\* no request helper running, the cache as the module creates it (`{}`)
FigmaIdle ==
  /\ attempt = 0
  /\ responses = <<>>
  /\ wait_times = <<>>
  /\ last_exception = NoException
  /\ file_cache = [k \in FileKeys |-> NoEntry]
  /\ clock = 0
  /\ callers = [c \in Callers |-> NoCall]
  /\ fetched = <<>>

----------------------------------------------------------------------------
(* search.py: ArtifactSearchEngine *)

\* _initialize_connectors keeps the connectors in the order of the dict literal
connector_order == AppSourceList

\* list(self._connectors.values()): the configured sources in insertion order
connector_list(configured) ==
  LET Kept(s) == s \in configured IN SelectSeq(connector_order, Kept)

\* a dispatch that forgets `if app in self._connectors`
target_connectors_unfiltered(r, configured) == r.target_apps

\* target_connectors, search.py:67-71
target_connectors(r, configured) ==
  LET Kept(app) == app \in configured IN SelectSeq(r.target_apps, Kept)

SearchResult(q, artifacts, sources_searched, total_results, summary) ==
  [kind |-> "SearchResult", query |-> q, artifacts |-> artifacts,
   sources_searched |-> sources_searched, total_results |-> total_results,
   summary |-> summary]

Raised(error) == [kind |-> "raised", error |-> error]

\* whether gather hands a raised exception back as a result
\* (return_exceptions=True, search.py:86)
return_exceptions == TRUE

\* the loop at search.py:92-97 over zip(target_connectors, results)
RECURSIVE CollectArtifacts(_, _)
CollectArtifacts(ts, i) ==
  IF i > Len(ts) THEN <<>>
  ELSE (IF ts[i].status = "raised" THEN <<>> ELSE ts[i].artifacts)
       \o CollectArtifacts(ts, i + 1)

\* a result that lists every known source as searched
CollectSourcesKnown(ts) == AppSourceList

\* sources_searched, search.py:90-97
CollectSources(ts) ==
  LET Ok(task) == task.status # "raised"
      kept == SelectSeq(ts, Ok)
  IN [i \in DOMAIN kept |-> kept[i].source]

----------------------------------------------------------------------------
(* The inputs of the router *)

\* the longest generated query, in words
MaxQueryWords == 2

Vocabulary ==
  { <<"r","i","s","k">>,
    <<"r","e","q","u","i","r","e","m","e","n","t">>,
    <<"U","I">>,
    <<"t","h","e">>,
    <<"o","f">>,
    <<"p","u","m","p">> }

RECURSIVE Join(_)
Join(ws) ==
  IF ws = <<>> THEN <<>>
  ELSE IF Len(ws) = 1 THEN ws[1]
  ELSE ws[1] \o <<" ">> \o Join(Tail(ws))

GeneratedQueries ==
  {Join(ws) : ws \in UNION {[1..k -> Vocabulary] : k \in 1..MaxQueryWords}}

\* blank queries, irregular spacing, and queries of more than five words
BlankQuery == <<" ">>
SpacedQuery == <<"\t"," ","R","i","s","k"," "," ","p","u","m","p"," ">>
MockupQuery ==
  <<"s","h","o","w"," ","m","e"," ","d","e","s","i","g","n"," ","m","o","c","k","u","p","s"," ","f","o","r"," ","t","h","e">>
  \o <<" ","h","e","a","r","t"," ","r","a","t","e"," ","s","c","r","e","e","n">>
LongQuery ==
  <<"f","i","n","d"," ","p","u","m","p"," ","v","a","l","v","e"," ","a","l","a","r","m"," ","d","o","s","e">>
  \o <<" ","r","a","t","e"," ","l","i","m","i","t"," ","s","e","n","s","o","r">>

Queries == GeneratedQueries \cup {BlankQuery, SpacedQuery, MockupQuery, LongQuery}

Pump == <<"p","u","m","p">>

AppFields ==
  { Missing, Null, List(<<>>), List(<<Str(FIGMA)>>),
    List(<<Str(NOTION), Str(NOTION)>>),
    List(<<Str("jira"), Num, Str(ICEPANEL)>>),
    Text(<<"f","i","g","m","a">>), Dict(<<Str(FIGMA)>>) }

TypeFields ==
  { Missing, Number, List(<<Str("risk")>>), List(<<Str("bogus"), Str("design")>>) }

TermFields ==
  { Missing, Null, List(<<>>), List(<<Str(Pump)>>), List(<<Str(Pump), Num>>),
    Text(Pump),
    List(<<Str(Pump), Str(Pump), Str(Pump), Str(Pump), Str(Pump), Str(Pump)>>) }

Failures == {Failure(k) : k \in {"error", "empty", "nonjson", "nonobject"}}

Responses ==
  Failures \cup
  {Object(a, ty, te) : a \in AppFields, ty \in TypeFields, te \in TermFields}

\* no request is made, so there is no answer
Unasked == Failure("unasked")

----------------------------------------------------------------------------
(* Values of the variables an operation has not set *)

\* no summarization request was made
NotAsked == "unasked"

NoRoute == RoutedQuery(<<>>, <<>>, <<>>, <<>>)
Op(name, source, id) == [name |-> name, source |-> source, id |-> id]
NoOp == Op("none", "", 0)
NoResult == [kind |-> "none"]

----------------------------------------------------------------------------
(* The router alone: route_query applied to every query and answer *)

RouterInit ==
  /\ FigmaIdle
  /\ query \in Queries
  /\ ai_configured \in BOOLEAN
  /\ response \in (IF ai_configured THEN Responses ELSE {Unasked})
  /\ pc = "route"
  /\ op = Op("route_query", "", 0)
  /\ routed = NoRoute
  /\ connectors = {}
  /\ clients = {}
  /\ tasks = <<>>
  /\ result = NoResult
  /\ calls = <<>>
  /\ merged = <<>>
  /\ ranked = NoResult
  /\ summary_answer = NotAsked

Route ==
  /\ UNCHANGED figma_vars
  /\ pc = "route"
  /\ routed' = route_query(query, ai_configured, response)
  /\ calls' = IF classifier_called(ai_configured)
                THEN Append(calls, [to |-> "classifier", method |-> "request"])
                ELSE calls
  /\ pc' = "routed"
  /\ UNCHANGED <<connectors, ai_configured, clients, op, query, response, tasks,
                 result, merged, ranked, summary_answer>>

RouterNext == Route

SpecRouter == RouterInit /\ [][RouterNext]_vars

----------------------------------------------------------------------------
(* The engine: one operation at a time on one ArtifactSearchEngine.  A      *)
(* search is split where it awaits its connectors: SearchStart routes and   *)
(* dispatches, each dispatched call then ends on its own, and SearchFinish  *)
(* runs once asyncio.gather has every outcome.  An operation ends in        *)
(* "done", where result holds what it returned or raised.                  *)

EngineQueries ==
  { <<"r","i","s","k">>, <<"U","I">>, <<"p","u","m","p">>, BlankQuery }

EngineResponses ==
  { Failure("error"),
    Object(List(<<Str(NOTION), Str(NOTION)>>), Missing, Missing),
    Object(List(<<Str("jira"), Num, Str(ICEPANEL)>>), Missing, List(<<Str(Pump)>>)),
    Object(List(<<Str(FIGMA), Str(AZURE_DEVOPS)>>), List(<<Str("design")>>), Null) }

\* the ids get_artifact is asked for
ArtifactIds == 1..(MaxArtifacts + 1)

EngineInit ==
  /\ FigmaIdle
  /\ connectors \in SUBSET AppSource
  /\ ai_configured \in BOOLEAN
  /\ clients = {}
  /\ pc = "idle"
  /\ op = NoOp
  /\ query = <<>>
  /\ response = Unasked
  /\ routed = NoRoute
  /\ tasks = <<>>
  /\ result = NoResult
  /\ calls = <<>>
  /\ merged = <<>>
  /\ ranked = NoResult
  /\ summary_answer = NotAsked

\* api.py: the request model of POST /search (and of POST /chat, whose
\* message has the same bounds), validated before the handler runs
MinLength == 1
MaxLength == 1000

EmptyQuery == <<>>

\* a request model without the length bounds
SearchRequest_unchecked(q) == TRUE

\* query: str = Field(..., min_length=1, max_length=1000)
SearchRequest_valid(q) == Len(q) >= MinLength /\ Len(q) <= MaxLength

\* the answer to a request whose body fails validation
Rejected == [kind |-> "rejected", error |-> "RequestValidationError"]

\* POST /search with a body SearchRequest does not accept: the framework
\* answers before the handler, and so before the engine, is entered
RejectRequest(q) ==
  /\ UNCHANGED figma_vars
  /\ pc = "idle"
  /\ ~SearchRequest_valid(q)
  /\ op' = Op("request", "", 0)
  /\ query' = q
  /\ result' = Rejected
  /\ pc' = "done"
  /\ UNCHANGED <<connectors, ai_configured, clients, response, routed, tasks,
                 calls, merged, ranked, summary_answer>>

\* search(), search.py:49-86: route, filter to the configured connectors,
\* return at once when none is left, else start one search per connector.
\* figma_cached: the Figma file cache answers (figma.py:111-115), so the
\* Figma connector needs no client.
SearchStart(q, resp, figma_cached) ==
  /\ UNCHANGED figma_vars
  /\ pc = "idle"
  /\ SearchRequest_valid(q)
  /\ LET r == route_query(q, ai_configured, resp)
         targets == target_connectors(r, connectors)
         asked == IF classifier_called(ai_configured)
                    THEN <<Call("classifier", "request")>> ELSE <<>>
         started == {targets[i] : i \in DOMAIN targets}
                      \ (IF figma_cached THEN {FIGMA} ELSE {})
     IN /\ op' = Op("search", "", 0)
        /\ query' = q
        /\ response' = resp
        /\ routed' = r
        /\ merged' = <<>>
        /\ ranked' = NoResult
        /\ summary_answer' = NotAsked
        /\ IF targets = <<>>
             THEN /\ result' = SearchResult(q, <<>>, <<>>, 0, NoSourcesSummary)
                  /\ tasks' = <<>>
                  /\ calls' = asked
                  /\ pc' = "done"
                  /\ UNCHANGED clients
             ELSE /\ result' = NoResult
                  /\ tasks' = [i \in DOMAIN targets |->
                                 Task(targets[i], "pending", <<>>, "pending")]
                  /\ calls' = asked \o
                       [i \in DOMAIN targets |-> Call(targets[i], "search")]
                  /\ clients' = clients \cup started
                  /\ pc' = "gather"
  /\ UNCHANGED <<connectors, ai_configured>>

\* a dispatched search returns the first n artifacts of its backend
ConnectorReturns(i, n) ==
  /\ UNCHANGED figma_vars
  /\ pc = "gather"
  /\ i \in DOMAIN tasks
  /\ tasks[i].status = "pending"
  /\ tasks' = [tasks EXCEPT ![i] = connector_search(tasks[i].source, "ok", n)]
  /\ UNCHANGED <<connectors, ai_configured, clients, pc, op, query, response,
                 routed, result, calls, merged, ranked, summary_answer>>

\* the upstream call of a dispatched search fails (network error, non-2xx
\* response, malformed payload, retries exhausted): the connector logs it
\* and returns []
ConnectorUpstreamFails(i, failure) ==
  /\ UNCHANGED figma_vars
  /\ pc = "gather"
  /\ i \in DOMAIN tasks
  /\ tasks[i].status = "pending"
  /\ failure \in UpstreamFailures(tasks[i].source)
  /\ tasks' = [tasks EXCEPT ![i] = connector_search(tasks[i].source, failure, 0)]
  /\ UNCHANGED <<connectors, ai_configured, clients, pc, op, query, response,
                 routed, result, calls, merged, ranked, summary_answer>>

\* a dispatched search raises
ConnectorRaises(i) ==
  /\ UNCHANGED figma_vars
  /\ pc = "gather"
  /\ i \in DOMAIN tasks
  /\ tasks[i].status = "pending"
  /\ tasks' = [tasks EXCEPT
       ![i] = Task(tasks[i].source, "raised", <<>>, "raised")]
  /\ UNCHANGED <<connectors, ai_configured, clients, pc, op, query, response,
                 routed, result, calls, merged, ranked, summary_answer>>

\* the first exception among the gathered calls aborts search() unless
\* gather returns exceptions as results
gather_raises(ts) ==
  ~return_exceptions /\ \E i \in DOMAIN ts : ts[i].status = "raised"

\* a wait that ends with the first call that ends
gather_done_first(ts) == \E i \in DOMAIN ts : ts[i].status # "pending"

\* `await asyncio.gather(*search_tasks, return_exceptions=True)` resumes
\* search() once every gathered call has returned or raised
gather_done(ts) == \A i \in DOMAIN ts : ts[i].status # "pending"

\* search(), search.py:86-117, once every dispatched call has ended
SearchFinish(answer) ==
  /\ UNCHANGED figma_vars
  /\ pc = "gather"
  /\ gather_done(tasks)
  /\ LET all_artifacts == CollectArtifacts(tasks, 1)
         sources_searched == CollectSources(tasks)
         outcome == sort_outcome(all_artifacts)
         asks == summarizer_called(outcome.list, ai_configured)
     IN IF gather_raises(tasks)
          THEN /\ result' = Raised("ConnectorError")
               /\ UNCHANGED <<merged, ranked, calls, summary_answer>>
        ELSE IF outcome.kind = "raised"
          THEN /\ merged' = all_artifacts
               /\ ranked' = outcome
               /\ result' = Raised(outcome.error)
               /\ UNCHANGED <<calls, summary_answer>>
          ELSE /\ merged' = all_artifacts
               /\ ranked' = outcome
               /\ result' = SearchResult(query, outcome.list, sources_searched,
                                         Len(outcome.list),
                                         generate_summary(outcome.list, ai_configured, answer))
               /\ calls' = IF asks THEN Append(calls, Call("summarizer", "request"))
                           ELSE calls
               /\ summary_answer' = IF asks THEN answer ELSE NotAsked
  /\ pc' = "done"
  /\ UNCHANGED <<connectors, ai_configured, clients, op, query, response, routed,
                 tasks>>

\* what a configured connector's get_by_id(id) yields: the artifact, or None
\* when the backend has none or the upstream call fails (e.g. notion.py:107-109)
NotFound == [kind |-> "None"]
Found(a) == [kind |-> "Artifact", artifact |-> a]

\* a connector that catches the HTTP errors only
get_by_id_catches_http_only(src, failure) ==
  failure \in {"network_error", "http_error"}

\* whether the except clause of get_by_id() catches the failure
get_by_id_catches(src, failure) == TRUE

\* get_by_id(id) of the connector of src: the artifact, None when the
\* backend has none, or None from the except clause
connector_get_by_id(src, id, upstream) ==
  IF upstream = "ok"
    THEN IF id <= MaxArtifacts THEN Found(StoreItem(src, id)) ELSE NotFound
  ELSE IF get_by_id_catches(src, upstream) THEN NotFound
  ELSE Raised("UpstreamError")

\* a lookup that forgets `if source not in self._connectors`
get_artifact_always_delegates(source, configured) == TRUE

\* whether get_artifact reaches the connector, search.py:181-185
get_artifact_delegates(source, configured) == source \in configured

\* get_artifact(), search.py:179-185.  upstream: how the upstream call of
\* the connector's get_by_id ends
GetArtifact(source, id, upstream) ==
  /\ UNCHANGED figma_vars
  /\ pc = "idle"
  /\ upstream \in UpstreamOutcomes(source)
  /\ op' = Op("get_artifact", source, id)
  /\ IF ~get_artifact_delegates(source, connectors)
       THEN /\ result' = NotFound
            /\ calls' = <<>>
            /\ tasks' = <<>>
            /\ UNCHANGED clients
       ELSE /\ result' = connector_get_by_id(source, id, upstream)
            /\ calls' = <<Call(source, "get_by_id")>>
            /\ tasks' = <<Task(source,
                             IF connector_get_by_id(source, id, upstream).kind = "raised"
                               THEN "raised" ELSE "returned",
                             <<>>, upstream)>>
            /\ clients' = clients \cup {source}
  /\ pc' = "done"
  /\ UNCHANGED <<connectors, ai_configured, query, response, routed, merged,
                 ranked, summary_answer>>

\* what one liveness check does: "up" and "down" return True and False,
\* "raises" raises
CheckOutcomes == {"up", "down", "raises"}

\* a loop without the try: the first check that raises ends it
test_connections_unguarded(configured, outcome) ==
  IF \E s \in configured : outcome[s] = "raises" THEN Raised("ConnectionError")
  ELSE [kind |-> "connections", value |-> [s \in configured |-> outcome[s] = "up"]]

\* what test_connections() returns, search.py:189-196: the check's boolean
\* per configured source, False for a check that raises
test_connections_result(configured, outcome) ==
  [kind |-> "connections", value |-> [s \in configured |-> outcome[s] = "up"]]

\* test_connections(), search.py:187-196; tasks holds how each check ended
TestConnections(outcome) ==
  /\ UNCHANGED figma_vars
  /\ pc = "idle"
  /\ op' = Op("test_connections", "", 0)
  /\ result' = test_connections_result(connectors, outcome)
  /\ LET order == connector_list(connectors)
     IN /\ calls' = [i \in DOMAIN order |-> Call(order[i], "test_connection")]
        /\ tasks' = [i \in DOMAIN order |->
                       Task(order[i],
                            IF outcome[order[i]] = "raises" THEN "raised" ELSE "returned",
                            <<>>, outcome[order[i]])]
  /\ clients' = clients \cup connectors
  /\ pc' = "done"
  /\ UNCHANGED <<connectors, ai_configured, query, response, routed, merged,
                 ranked, summary_answer>>

\* how many connectors the loop of close() reaches, search.py:202-205, when
\* closing the one at position failing raises (0: none raises): a raise
\* leaves the loop
closed_upto(order, failing) == IF failing = 0 THEN Len(order) ELSE failing

\* close(), search.py:202-205.  A connector's close() (e.g. notion.py:256-260)
\* can raise only in aclose(), that is when it holds a client; it drops the
\* client after aclose() has returned.
Close(failing) ==
  /\ UNCHANGED figma_vars
  /\ pc = "idle"
  /\ op' = Op("close", "", 0)
  /\ LET order == connector_list(connectors)
         upto == closed_upto(order, failing)
         closed == {order[i] : i \in 1..upto} \ (IF failing = 0 THEN {} ELSE {order[failing]})
     IN /\ failing # 0 => failing \in DOMAIN order /\ order[failing] \in clients
        /\ calls' = [i \in 1..upto |-> Call(order[i], "close")]
        /\ clients' = clients \ closed
        /\ result' = IF failing = 0 THEN [kind |-> "closed"] ELSE Raised("CloseError")
  /\ pc' = "done"
  /\ UNCHANGED <<connectors, ai_configured, query, response, routed, tasks,
                 merged, ranked, summary_answer>>

\* the operation has returned or raised to its caller; its locals are gone
Return ==
  /\ UNCHANGED figma_vars
  /\ pc = "done"
  /\ pc' = "idle"
  /\ op' = NoOp
  /\ query' = <<>>
  /\ response' = Unasked
  /\ routed' = NoRoute
  /\ tasks' = <<>>
  /\ result' = NoResult
  /\ calls' = <<>>
  /\ merged' = <<>>
  /\ ranked' = NoResult
  /\ summary_answer' = NotAsked
  /\ UNCHANGED <<connectors, ai_configured, clients>>

Next ==
  \/ \E q \in EngineQueries \cup {EmptyQuery} : RejectRequest(q)
  \/ \E q \in EngineQueries \cup {EmptyQuery}, figma_cached \in BOOLEAN :
       \E resp \in (IF ai_configured THEN EngineResponses ELSE {Unasked}) :
         SearchStart(q, resp, figma_cached)
  \/ \E i \in 1..Len(AppSourceList) + 1, n \in 0..MaxArtifacts : ConnectorReturns(i, n)
  \/ \E i \in 1..Len(AppSourceList) + 1 :
       \E failure \in UpstreamFailures(FIGMA) : ConnectorUpstreamFails(i, failure)
  \/ \E i \in 1..Len(AppSourceList) + 1 : ConnectorRaises(i)
  \/ \E answer \in SummaryAnswers : SearchFinish(answer)
  \/ \E source \in AppSource, id \in ArtifactIds :
       \E upstream \in UpstreamOutcomes(source) : GetArtifact(source, id, upstream)
  \/ \E outcome \in [connectors -> CheckOutcomes] : TestConnections(outcome)
  \/ \E failing \in 0..Len(AppSourceList) : Close(failing)
  \/ Return

Spec == EngineInit /\ [][Next]_vars

----------------------------------------------------------------------------
(* The ranking alone: the sort of search.py:99-103 applied to every merged  *)
(* list of at most MaxRankLen artifacts                                     *)

\* the longest merged list
MaxRankLen == 3

\* the latest timestamp
MaxTime == 2

RankStamps == (NoTime..MaxTime) \X (NoTime..MaxTime)

\* the list of artifacts with the timestamps st, the i-th with id i
RankInput(st) == [i \in DOMAIN st |-> Artifact(NOTION, i, st[i][1], st[i][2])]

RankInit ==
  /\ FigmaIdle
  /\ \E n \in 0..MaxRankLen :
       \E st \in [1..n -> RankStamps] : merged = RankInput(st)
  /\ pc = "rank"
  /\ op = Op("sort", "", 0)
  /\ ranked = NoResult
  /\ summary_answer = NotAsked
  /\ connectors = {}
  /\ ai_configured = FALSE
  /\ clients = {}
  /\ query = <<>>
  /\ response = Unasked
  /\ routed = NoRoute
  /\ tasks = <<>>
  /\ result = NoResult
  /\ calls = <<>>

Rank ==
  /\ UNCHANGED figma_vars
  /\ pc = "rank"
  /\ ranked' = sort_outcome(merged)
  /\ pc' = "ranked"
  /\ UNCHANGED <<connectors, ai_configured, clients, op, query, response, routed,
                 tasks, result, calls, merged, summary_answer>>

RankNext == Rank

SpecRank == RankInit /\ [][RankNext]_vars

----------------------------------------------------------------------------
(* Properties *)

Count(s, x) == Cardinality({i \in DOMAIN s : s[i] = x})

\* the search operation has returned or raised
SearchDone == pc = "done" /\ op.name = "search"

Raising == {i \in DOMAIN tasks : tasks[i].status = "raised"}
NonRaising == DOMAIN tasks \ Raising

RECURSIVE CountIn(_, _, _)
\* how often x occurs in the lists returned by the dispatched calls in idx
CountIn(idx, ts, x) ==
  IF idx = {} THEN 0
  ELSE LET i == CHOOSE j \in idx : TRUE
       IN Count(ts[i].artifacts, x) + CountIn(idx \ {i}, ts, x)

\* arts holds exactly the artifacts the non-raising calls returned, each as
\* often as it was returned
IsUnionOfNonRaising(arts) ==
  LET returned == UNION {Range(tasks[i].artifacts) : i \in NonRaising}
  IN /\ Range(arts) = returned
     /\ \A x \in returned : Count(arts, x) = CountIn(NonRaising, tasks, x)

\* srcs lists the sources of the non-raising calls, in dispatch order
RECURSIVE IsSourcesFrom(_, _, _)
IsSourcesFrom(srcs, k, i) ==
  IF i > Len(tasks) THEN k = Len(srcs) + 1
  ELSE IF tasks[i].status = "raised" THEN IsSourcesFrom(srcs, k, i + 1)
  ELSE k <= Len(srcs) /\ srcs[k] = tasks[i].source /\ IsSourcesFrom(srcs, k + 1, i + 1)

\* C1: whatever subset of the dispatched connectors raises, search returns;
\* its artifacts are the multiset union of the lists of the non-raising
\* connectors and sources_searched is exactly the non-raising connectors
\* (N - |raising| of them; none and no artifact when all raise).
C1_RaisingConnectorsIsolated ==
  (SearchDone /\ Raising # {}) =>
    /\ result.kind = "SearchResult"
    /\ IsUnionOfNonRaising(result.artifacts)
    /\ IsSourcesFrom(result.sources_searched, 1, 1)
    /\ Len(result.sources_searched) = Len(tasks) - Cardinality(Raising)
    /\ (NonRaising = {} =>
          result.total_results = 0 /\ result.sources_searched = <<>>)

\* C2: search returns a well-formed SearchResult and does not raise, for
\* every query, configured set, outcome of classifier, connectors and
\* summarizer, and every combination of present and absent timestamps.
C2_SearchReturnsWellFormed ==
  SearchDone =>
    /\ result.kind = "SearchResult"
    /\ result.query = query
    /\ result.total_results = Len(result.artifacts)
    /\ Range(result.sources_searched) \subseteq AppSource
    /\ \A i \in DOMAIN result.artifacts : result.artifacts[i].source \in AppSource

\* updated_at if present, else created_at, else none
Effective(a) == IF a.updated_at # NoTime THEN a.updated_at ELSE a.created_at

\* out is the list in: by effective timestamp descending, the artifacts with
\* no timestamp behind all others, equal ones in their order in the list in
\* (whose i-th artifact has id i)
IsRanking(in, out) ==
  /\ Len(out) = Len(in)
  /\ Range(out) = Range(in)
  /\ \A i, j \in DOMAIN out :
       i < j =>
         /\ Effective(out[j]) # NoTime => Effective(out[i]) # NoTime
         /\ Effective(out[i]) >= Effective(out[j])
         /\ Effective(out[i]) = Effective(out[j]) => out[i].id < out[j].id

\* C3: the returned list is the merged list ordered by effective timestamp
\* descending, artifacts without a timestamp after all those with one,
\* artifacts of equal effective timestamp in their pre-sort order.
C3_RankedByEffectiveTimestamp ==
  pc = "ranked" => ranked.kind = "ok" /\ IsRanking(merged, ranked.list)

\* the search calls made so far, in order
SearchCalls ==
  LET IsSearch(c) == c.method = "search" IN SelectSeq(calls, IsSearch)

\* C23: every connector of the dispatch set has its search started before
\* the orchestrator consumes any result: while a call is outstanding all
\* calls of the dispatch have been started, whatever the state (pending,
\* returned, raised) of the others; no call is cancelled; and search() goes
\* on to merging only after every dispatched call has returned or raised.
C23_FanOutThenWaitForAll ==
  /\ (op.name = "search" /\ pc \in {"gather", "done"}) =>
       /\ SearchCalls = [i \in DOMAIN tasks |-> Call(tasks[i].source, "search")]
       /\ \A i \in DOMAIN tasks : tasks[i].status \in {"pending", "returned", "raised"}
  /\ SearchDone =>
       \A i \in DOMAIN tasks : tasks[i].status \in {"returned", "raised"}

C23_Witness ==
  /\ SearchDone
  /\ Len(tasks) > 2
  /\ tasks[1].status = "raised"
  /\ tasks[2].status = "returned"
  /\ tasks[2].artifacts # <<>>
  /\ result.kind = "SearchResult"
  /\ result.artifacts # <<>>

\* the number of search calls the connector of s has received
SearchCallsTo(s) ==
  Cardinality({i \in DOMAIN calls : calls[i] = Call(s, "search")})

\* C24: in one search each configured connector receives at most one search
\* call, and exactly one if its source is in routed.target_apps, whatever
\* the router returned; sources_searched names no source twice.
C24_OneSearchCallPerConnector ==
  /\ (op.name = "search" /\ pc \in {"gather", "done"}) =>
       \A s \in connectors :
         /\ SearchCallsTo(s) <= 1
         /\ s \in Range(routed.target_apps) => SearchCallsTo(s) = 1
  /\ (SearchDone /\ result.kind = "SearchResult") =>
       \A i, j \in DOMAIN result.sources_searched :
         result.sources_searched[i] = result.sources_searched[j] => i = j

\* C22: ranking is idempotent for every artifact list: the sort yields a
\* ranked list, and the sort applied to that list yields the same list.
C22_RankingIdempotent ==
  pc = "ranked" =>
    /\ ranked.kind = "ok"
    /\ sort_outcome(ranked.list) = ranked

UpstreamFailed ==
  {i \in DOMAIN tasks : tasks[i].upstream \in UpstreamFailures(tasks[i].source)}
UpstreamOk == {i \in DOMAIN tasks : tasks[i].upstream = "ok"}

\* C4: when the upstream call of a dispatched connector fails while another
\* dispatched connector succeeds, the search succeeds, the failing source
\* contributes no artifact and is not in sources_searched.  (Stated for the
\* searches that dispatch to each source once and whose ranking does not
\* raise.)
C4_FailedUpstreamNotListed ==
  (SearchDone /\ UpstreamFailed # {} /\ UpstreamOk # {}
     /\ (\A i, j \in DOMAIN tasks : tasks[i].source = tasks[j].source => i = j)
     /\ ~sort_raises(CollectArtifacts(tasks, 1))) =>
    /\ result.kind = "SearchResult"
    /\ \A i \in UpstreamFailed :
         /\ tasks[i].artifacts = <<>>
         /\ tasks[i].source \notin Range(result.sources_searched)

\* C5: when no routed target app is configured, search returns zero
\* artifacts, total_results 0, no sources_searched and the fixed summary,
\* and calls neither a connector's search nor the summarizer.
C5_NoDispatchShortCircuit ==
  (SearchDone /\ Range(routed.target_apps) \cap connectors = {}) =>
    /\ result = SearchResult(query, <<>>, <<>>, 0, NoSourcesSummary)
    /\ \A i \in DOMAIN calls :
         calls[i].method # "search" /\ calls[i].to # "summarizer"

C5_Witness ==
  /\ SearchDone
  /\ connectors # {}
  /\ Range(routed.target_apps) \cap connectors = {}
  /\ result.summary = NoSourcesSummary

\* C6: every SearchResult search returns has total_results = len(artifacts)
\* and sources_searched within the routed target apps that are configured.
C6_ResultInvariant ==
  (SearchDone /\ result.kind = "SearchResult") =>
    /\ result.total_results = Len(result.artifacts)
    /\ Range(result.sources_searched) \subseteq
         (Range(routed.target_apps) \cap connectors)

C6_Witness ==
  /\ SearchDone
  /\ result.kind = "SearchResult"
  /\ Len(result.artifacts) >= 2
  /\ Raising # {}
  /\ result.sources_searched # <<>>
  /\ Range(routed.target_apps) \ connectors # {}

\* C7: a source that was not configured at construction receives no call in
\* any operation, is never dispatched to, never appears in sources_searched,
\* holds no client, and get_artifact for it returns None without any call.
C7_UnconfiguredExcluded ==
  /\ \A i \in DOMAIN calls : calls[i].to \in AppSource => calls[i].to \in connectors
  /\ \A i \in DOMAIN tasks : tasks[i].source \in connectors
  /\ clients \subseteq connectors
  /\ (SearchDone /\ result.kind = "SearchResult") =>
       Range(result.sources_searched) \subseteq connectors
  /\ (pc = "done" /\ op.name = "get_artifact" /\ op.source \notin connectors) =>
       result = NotFound /\ calls = <<>>

C7_Witness ==
  /\ pc = "done"
  /\ op.name = "get_artifact"
  /\ op.source \notin connectors
  /\ clients # {}
  /\ result = NotFound

\* C8: close() invokes close() on every configured connector, whether it
\* returns or raises.
C8_CloseReachesAll ==
  (pc = "done" /\ op.name = "close") =>
    \A s \in connectors : \E i \in DOMAIN calls : calls[i] = Call(s, "close")

\* a field that is present and is not a list of strings
WrongShape(field) ==
  \/ field.shape \in {"str", "num", "dict"}
  \/ field.shape = "list" /\ \E i \in DOMAIN field.items : field.items[i].t # "str"

\* the remote call fails: network error, empty content, non-JSON content,
\* JSON that is not an object, or a field of the wrong shape
RemoteCallFailed(resp) ==
  \/ resp.kind \in {"error", "empty", "nonjson", "nonobject"}
  \/ /\ resp.kind = "object"
     /\ \/ WrongShape(resp.target_apps)
        \/ WrongShape(resp.artifact_types)
        \/ WrongShape(resp.search_terms)

\* C9: with the classifier configured, whenever the remote call fails
\* route_query returns exactly what the fallback returns for the query.
C9_FailureGivesFallback ==
  (pc = "routed" /\ ai_configured /\ RemoteCallFailed(response)) =>
    routed = fallback_route(query)

\* C10: the RoutedQuery route_query returns never has empty search_terms.
C10_SearchTermsNonEmpty ==
  pc = "routed" => routed.search_terms # <<>>

----------------------------------------------------------------------------
(* Properties of the router *)

NoDuplicates(s) == \A i, j \in DOMAIN s : s[i] = s[j] => i = j

\* C11: the RoutedQuery route_query returns has no source and no artifact
\* type twice, on the classifier path and on the fallback path.
C11_RoutedListsDeduplicated ==
  pc = "routed" =>
    NoDuplicates(routed.target_apps) /\ NoDuplicates(routed.artifact_types)

\* the strings of a response list that are values of the enumeration, in
\* the order of the list (an absent key reads as the empty list)
TokensIn(field, enum) ==
  LET InEnum(x) == x.t = "str" /\ x.v \in enum
      kept == SelectSeq(field.items, InEnum)
  IN [i \in DOMAIN kept |-> kept[i].v]

IsTokenList(field) == field.shape \in {"list", "missing"}

IsTermList(field) ==
  IsTokenList(field) /\ \A i \in DOMAIN field.items : field.items[i].t = "str"

\* the classifier answered with a JSON object holding lists of tokens
OnClassifierPath ==
  /\ pc = "routed"
  /\ ai_configured
  /\ response.kind = "object"
  /\ IsTokenList(response.target_apps)
  /\ IsTokenList(response.artifact_types)
  /\ IsTermList(response.search_terms)

\* C12: on the classifier path tokens outside the enumerations are dropped
\* without fallback: target_apps is the AppSource tokens of the response or
\* [azure_devops, notion], artifact_types its ArtifactType tokens or
\* [document], search_terms its list or the first 5 words of the query.
C12_UnknownTokensDiscarded ==
  OnClassifierPath =>
    LET apps == TokensIn(response.target_apps, AppSource)
        types == TokensIn(response.artifact_types, ArtifactType)
        terms == [i \in DOMAIN response.search_terms.items |->
                    response.search_terms.items[i].v]
    IN /\ routed.original_query = query
       /\ routed.target_apps = (IF apps = <<>> THEN <<AZURE_DEVOPS, NOTION>> ELSE apps)
       /\ routed.artifact_types = (IF types = <<>> THEN <<"document">> ELSE types)
       /\ routed.search_terms =
            (IF terms = <<>> THEN FirstN(Split(query), SearchTermLimit) ELSE terms)

C12_Witness ==
  /\ OnClassifierPath
  /\ \E i \in DOMAIN response.target_apps.items :
       response.target_apps.items[i].v \notin AppSource
  /\ \E i \in DOMAIN response.artifact_types.items :
       response.artifact_types.items[i].v \notin ArtifactType
  /\ routed.target_apps = <<ICEPANEL>>
  /\ routed.artifact_types = <<"design">>
  /\ Len(routed.search_terms) > SearchTermLimit

\* the keyword groups of the fallback, in the order they are scanned, with
\* the sources and the artifact type each one stands for
KeywordGroups ==
  << [keywords |-> DesignKeywords, apps |-> <<FIGMA>>, type |-> "design"],
     [keywords |-> ArchitectureKeywords, apps |-> <<ICEPANEL>>, type |-> "architecture"],
     [keywords |-> RiskKeywords, apps |-> <<AZURE_DEVOPS, NOTION>>, type |-> "risk"],
     [keywords |-> MitigationKeywords, apps |-> <<AZURE_DEVOPS, NOTION>>, type |-> "mitigation"],
     [keywords |-> RequirementKeywords, apps |-> <<AZURE_DEVOPS, NOTION>>, type |-> "requirement"],
     [keywords |-> DocumentKeywords, apps |-> <<NOTION>>, type |-> "document"],
     [keywords |-> WorkItemKeywords, apps |-> <<AZURE_DEVOPS>>, type |-> "work_item"] >>

\* the groups one of whose keywords occurs in the lowercased query
MatchedGroups(q) ==
  {g \in DOMAIN KeywordGroups :
     \E kw \in KeywordGroups[g].keywords : Contains(Lower(q), kw)}

\* where a source is first seen when the matched groups are scanned in order
FirstSeen(q, s) ==
  LET g == CHOOSE h \in MatchedGroups(q) :
             /\ s \in Range(KeywordGroups[h].apps)
             /\ \A k \in MatchedGroups(q) :
                  s \in Range(KeywordGroups[k].apps) => h <= k
      at == CHOOSE n \in DOMAIN KeywordGroups[g].apps : KeywordGroups[g].apps[n] = s
  IN g * Len(AppSourceList) + at

\* the index of the matched group that stands for an artifact type
GroupOfType(t) == CHOOSE g \in DOMAIN KeywordGroups : KeywordGroups[g].type = t

RoutedWithoutClassifier == pc = "routed" /\ ~ai_configured

\* C13: without a classifier, target_apps and artifact_types are the
\* deduplicated union, in first-seen order, of the sources and types of
\* exactly the keyword groups the lowercased query matches, or all four
\* sources with [document, requirement] when none matches; a risk keyword
\* brings azure_devops, notion and the risk type; the design-mockup query
\* routes to figma and design only.
C13_FallbackRoutesByKeywordGroups ==
  RoutedWithoutClassifier =>
    LET matched == MatchedGroups(query)
        apps == routed.target_apps
        types == routed.artifact_types
    IN /\ matched = {} =>
            apps = AppSourceList /\ types = <<"document", "requirement">>
       /\ matched # {} =>
            /\ NoDuplicates(apps) /\ NoDuplicates(types)
            /\ Range(apps) = UNION {Range(KeywordGroups[g].apps) : g \in matched}
            /\ Range(types) = {KeywordGroups[g].type : g \in matched}
            /\ \A i, j \in DOMAIN apps :
                 i < j => FirstSeen(query, apps[i]) < FirstSeen(query, apps[j])
            /\ \A i, j \in DOMAIN types :
                 i < j => GroupOfType(types[i]) < GroupOfType(types[j])
       /\ (\E kw \in RiskKeywords : Contains(Lower(query), kw)) =>
            {AZURE_DEVOPS, NOTION} \subseteq Range(apps) /\ "risk" \in Range(types)
       /\ query = MockupQuery => apps = <<FIGMA>> /\ types = <<"design">>

C13_Witness ==
  /\ RoutedWithoutClassifier
  /\ query = MockupQuery
  /\ routed.target_apps = <<FIGMA>>
  /\ routed.artifact_types = <<"design">>

\* the positions of the words of the query that are no stop word (in any
\* case) and longer than 2 characters
\* the words of the lower-cased query
QueryWords(q) == Range(Split(Lower(q)))

\* C29: in fallback routing a keyword group is matched only when one of its
\* keywords is a whole word of the query: a query with the word
\* "requirement" and no design keyword as a word is routed to azure_devops
\* and notion, and not to figma.
C29_FallbackMatchesWholeWords ==
  (RoutedWithoutClassifier
     /\ <<"r","e","q","u","i","r","e","m","e","n","t">> \in QueryWords(query)
     /\ QueryWords(query) \cap DesignKeywords = {}) =>
    /\ {AZURE_DEVOPS, NOTION} \subseteq Range(routed.target_apps)
    /\ FIGMA \notin Range(routed.target_apps)

KeptWords(q) ==
  {i \in DOMAIN Split(q) :
     Lower(Split(q)[i]) \notin stop_words /\ Len(Split(q)[i]) > MinTermLen}

\* the j-th smallest element of a set of positions
Nth(K, j) == CHOOSE i \in K : Cardinality({k \in K : k < i}) = j - 1

\* the fallback produced the RoutedQuery
OnFallbackPath ==
  /\ pc = "routed"
  /\ ~ai_configured \/ response.kind \in {"error", "empty", "nonjson", "nonobject"}

\* C14: the fallback's search_terms are the first at most 5 words of the raw
\* query that are no stop word and longer than 2 characters, in query
\* order, or exactly ["risk", "requirement"] when no word remains.
C14_FallbackSearchTerms ==
  OnFallbackPath =>
    LET K == KeptWords(query)
        terms == routed.search_terms
    IN IF K = {} THEN terms = DefaultTerms
       ELSE /\ Len(terms) = Min(Cardinality(K), SearchTermLimit)
            /\ \A j \in DOMAIN terms : terms[j] = Split(query)[Nth(K, j)]

C14_Witness ==
  /\ OnFallbackPath
  /\ query = LongQuery
  /\ Cardinality(KeptWords(query)) > SearchTermLimit
  /\ Len(Split(query)) > Cardinality(KeptWords(query))
  /\ Len(routed.search_terms) = SearchTermLimit
  /\ routed.search_terms[1] = Pump

\* C15: with the classification backend not configured no classifier
\* request is ever made, and route_query returns the fallback's RoutedQuery.
C15_NoClassifierCallWhenUnconfigured ==
  ~ai_configured =>
    /\ \A i \in DOMAIN calls : calls[i].to # "classifier"
    /\ pc = "routed" => routed = fallback_route(query)

C15_Witness ==
  /\ RoutedWithoutClassifier
  /\ query = SpacedQuery
  /\ calls = <<>>
  /\ routed = fallback_route(query)
  /\ routed.search_terms # <<>>

----------------------------------------------------------------------------
(* Properties of the engine, continued *)

SummarizerCalls == {i \in DOMAIN calls : calls[i].to = "summarizer"}

\* a search with a non-empty dispatch set has got past the ranking
SummaryStepReached == SearchDone /\ tasks # <<>> /\ ranked.kind = "ok"

\* C16: after a non-empty dispatch the summary is "No matching artifacts
\* found." without a backend call when nothing was merged; the template
\* with the count n without a backend call when n > 0 and the backend is
\* not configured; the same template when the backend call fails, and the
\* search returns all the same.
C16_SummaryChoice ==
  SummaryStepReached =>
    LET n == Len(ranked.list)
    IN /\ result.kind = "SearchResult"
       /\ n = 0 => result.summary = NoMatchSummary /\ SummarizerCalls = {}
       /\ (n > 0 /\ ~ai_configured) =>
            /\ result.summary = [text |-> "Found {n} artifacts across multiple sources.", n |-> n]
            /\ SummarizerCalls = {}
       /\ (n > 0 /\ ai_configured /\ summary_answer = "error") =>
            result.summary = [text |-> "Found {n} artifacts across multiple sources.", n |-> n]

C16_Witness ==
  /\ SummaryStepReached
  /\ ai_configured
  /\ summary_answer = "error"
  /\ Len(result.artifacts) > 1
  /\ result.summary.n = Len(result.artifacts)
  /\ SummarizerCalls # {}

----------------------------------------------------------------------------
(* One connector alone: search(routed_query) and get_by_id(id) of each of   *)
(* the four connectors, called as the engine calls them, under every way    *)
(* the upstream call can end                                                *)

ListResult(artifacts) == [kind |-> "list", artifacts |-> artifacts]

ConnectorOps ==
  {Op("connector.search", s, 0) : s \in AppSource}
    \cup {Op("connector.get_by_id", s, id) : s \in AppSource, id \in ArtifactIds}

ConnectorInit ==
  /\ FigmaIdle
  /\ op \in ConnectorOps
  /\ connectors \in {{}, {op.source}}
  /\ ai_configured = FALSE
  /\ clients = {}
  /\ pc = "call"
  /\ query = <<>>
  /\ response = Unasked
  /\ routed = NoRoute
  /\ tasks = <<>>
  /\ result = NoResult
  /\ calls = <<>>
  /\ merged = <<>>
  /\ ranked = NoResult
  /\ summary_answer = NotAsked

\* `if not self.is_configured(): return []` / `return None`, before the try
ReturnUnconfigured ==
  /\ UNCHANGED figma_vars
  /\ pc = "call"
  /\ op.source \notin connectors
  /\ result' = IF op.name = "connector.search" THEN ListResult(<<>>) ELSE NotFound
  /\ tasks' = <<Task(op.source, "returned", <<>>, "skipped")>>
  /\ pc' = "done"
  /\ UNCHANGED <<connectors, ai_configured, clients, op, query, response, routed,
                 calls, merged, ranked, summary_answer>>

\* the try block is entered: _get_client() creates the client and the
\* request goes out
SendRequest ==
  /\ UNCHANGED figma_vars
  /\ pc = "call"
  /\ op.source \in connectors
  /\ clients' = clients \cup {op.source}
  /\ calls' = Append(calls, Call(op.source, "request"))
  /\ pc' = "try"
  /\ UNCHANGED <<connectors, ai_configured, op, query, response, routed, tasks,
                 result, merged, ranked, summary_answer>>

\* search() ends: with the artifacts made from an upstream response of n
\* matching items, or through its except clause
SearchEnds(upstream, n) ==
  /\ UNCHANGED figma_vars
  /\ pc = "try"
  /\ op.name = "connector.search"
  /\ upstream \in UpstreamOutcomes(op.source)
  /\ LET task == connector_search(op.source, upstream, n)
     IN /\ tasks' = <<task>>
        /\ result' = IF task.status = "raised" THEN Raised("UpstreamError")
                     ELSE ListResult(task.artifacts)
  /\ pc' = "done"
  /\ UNCHANGED <<connectors, ai_configured, clients, op, query, response, routed,
                 calls, merged, ranked, summary_answer>>

\* get_by_id() ends: with the artifact, None, or through its except clause
GetByIdEnds(upstream) ==
  /\ UNCHANGED figma_vars
  /\ pc = "try"
  /\ op.name = "connector.get_by_id"
  /\ upstream \in UpstreamOutcomes(op.source)
  /\ result' = connector_get_by_id(op.source, op.id, upstream)
  /\ tasks' = <<Task(op.source,
                     IF connector_get_by_id(op.source, op.id, upstream).kind = "raised"
                       THEN "raised" ELSE "returned",
                     <<>>, upstream)>>
  /\ pc' = "done"
  /\ UNCHANGED <<connectors, ai_configured, clients, op, query, response, routed,
                 calls, merged, ranked, summary_answer>>

ConnectorNext ==
  \/ ReturnUnconfigured
  \/ SendRequest
  \/ \E upstream \in UpstreamOutcomes(FIGMA), n \in 0..MaxUpstream :
       SearchEnds(upstream, n)
  \/ \E upstream \in UpstreamOutcomes(FIGMA) : GetByIdEnds(upstream)

SpecConnector == ConnectorInit /\ [][ConnectorNext]_vars

----------------------------------------------------------------------------
(* Properties of the connectors *)

GetArtifactDone == pc = "done" /\ op.name = "get_artifact"

ConnectorSearchDone == pc = "done" /\ op.name = "connector.search"

C21_SearchReturnsAtMostTwenty ==
  ConnectorSearchDone => Len(result.artifacts) <= ResultLimit

----------------------------------------------------------------------------
(* Properties of the engine's health check *)

TestConnectionsDone == pc = "done" /\ op.name = "test_connections"

\* C18: test_connections returns a mapping with exactly one entry per
\* configured connector and never raises; a connector whose check raises is
\* recorded as false, and every configured connector is still checked.
C18_TestConnectionsIsolatesFailures ==
  TestConnectionsDone =>
    /\ result.kind = "connections"
    /\ DOMAIN result.value = connectors
    /\ \A s \in connectors :
         Cardinality({i \in DOMAIN calls :
                        calls[i] = [to |-> s, method |-> "test_connection"]}) = 1
    /\ \A i \in DOMAIN tasks :
         /\ tasks[i].upstream = "raises" => result.value[tasks[i].source] = FALSE
         /\ tasks[i].upstream = "down" => result.value[tasks[i].source] = FALSE
         /\ tasks[i].upstream = "up" => result.value[tasks[i].source] = TRUE

C18_Witness ==
  /\ TestConnectionsDone
  /\ Cardinality(connectors) > 2
  /\ tasks[1].upstream = "raises"
  /\ \E i \in DOMAIN tasks : tasks[i].upstream = "up"
  /\ result.kind = "connections"
  /\ result.value[tasks[1].source] = FALSE
  /\ \E s \in connectors : result.value[s]

----------------------------------------------------------------------------
(* Properties of the request validation *)

\* C19: the empty query is rejected with an invalid-input answer before the
\* router is reached: no route_query call, no connector call and no
\* summarizer call is made for it.
C19_EmptyQueryRejected ==
  (pc \in {"gather", "done"} /\ op.name \in {"request", "search"} /\ query = <<>>) =>
    /\ pc = "done"
    /\ result = Rejected
    /\ routed = NoRoute
    /\ calls = <<>>
    /\ tasks = <<>>

C19_Witness ==
  /\ pc = "done"
  /\ op.name = "request"
  /\ query = <<>>
  /\ connectors # {}
  /\ ai_configured
  /\ result.kind = "rejected"
  /\ calls = <<>>

----------------------------------------------------------------------------
(* connectors/figma.py: _request_with_retry, one call of it against every   *)
(* sequence of upstream outcomes                                            *)

\* `max_retries: int = 3`
max_retries == 3

\* the largest Retry-After delay the server sends in the model
MaxRetryAfter == 5

\* the Retry-After header of a response: absent, a number of seconds, or a
\* value int() does not accept (the header may also carry an HTTP date)
RetryAfterHeaders ==
  {[kind |-> "absent", seconds |-> 0], [kind |-> "not_int", seconds |-> 0]}
    \cup {[kind |-> "seconds", seconds |-> n] : n \in {0, 1, MaxRetryAfter}}

NoHeader == [kind |-> "absent", seconds |-> 0]

\* the status codes the server answers with
StatusCodes == {200, 204, 404, 429, 500, 503}

\* how one client.request(...) ends: a response, httpx.TimeoutException, or
\* another exception of the transport
HttpResponse(status, retry_after) ==
  [kind |-> "response", status_code |-> status, retry_after |-> retry_after]

Timeout == [kind |-> "TimeoutException", status_code |-> 0, retry_after |-> NoHeader]

ConnectError == [kind |-> "ConnectError", status_code |-> 0, retry_after |-> NoHeader]

RequestOutcomes ==
  {HttpResponse(st, NoHeader) : st \in StatusCodes}
    \cup {HttpResponse(429, h) : h \in RetryAfterHeaders}
    \cup {Timeout, ConnectError}

\* wait_time of attempt n after the outcome r: 2 ** attempt, and for a 429
\* with a Retry-After header max(wait_time, int(retry_after))
wait_time(n, r) ==
  IF r.kind = "response" /\ r.status_code = 429 /\ r.retry_after.kind = "seconds"
    THEN IF r.retry_after.seconds > 2 ^ n THEN r.retry_after.seconds ELSE 2 ^ n
    ELSE 2 ^ n

\* what one pass of the loop body does with the outcome r of its request:
\* "return", "raise" (an exception leaves the function), "sleep" (wait, then
\* the next pass) or "next" (the next pass at once)
loop_step(r) ==
  IF r.kind = "TimeoutException" THEN "sleep"
  ELSE IF r.kind # "response" THEN "raise"
  ELSE IF r.status_code = 200 THEN "return"
  ELSE IF r.status_code = 429
    THEN IF r.retry_after.kind = "not_int" THEN "raise" ELSE "sleep"
  ELSE IF r.status_code >= 500 THEN "sleep"
  ELSE IF r.status_code >= 400 THEN "raise"
  ELSE "next"

\* the exception that leaves the loop body
loop_raises(r) ==
  IF r.kind # "response" THEN r.kind
  ELSE IF r.status_code = 429 THEN "ValueError"
  ELSE "HTTPStatusError"

\* the raise after the loop: last_exception if a request timed out, else
\* HTTPStatusError("Failed after ... retries")
raise_after_loop(last) ==
  IF last # NoException THEN Raised(last) ELSE Raised("HTTPStatusError")

Sleep(n, seconds) == [attempt |-> n, seconds |-> seconds]

RetryInit ==
  /\ FigmaIdle
  /\ pc = "request"
  /\ op = Op("figma._request_with_retry", FIGMA, 0)
  /\ connectors = {FIGMA}
  /\ ai_configured = FALSE
  /\ clients = {FIGMA}
  /\ query = <<>>
  /\ response = Unasked
  /\ routed = NoRoute
  /\ tasks = <<>>
  /\ result = NoResult
  /\ calls = <<>>
  /\ merged = <<>>
  /\ ranked = NoResult
  /\ summary_answer = NotAsked

\* one pass of `for attempt in range(max_retries)`: the request, what follows
\* from its outcome r, and after the last pass the raise behind the loop
Attempt(r) ==
  /\ pc = "request"
  /\ attempt < max_retries
  /\ calls' = Append(calls, Call(FIGMA, "request"))
  /\ responses' = Append(responses, r)
  /\ last_exception' = IF r.kind = "TimeoutException" THEN r.kind ELSE last_exception
  /\ wait_times' = IF loop_step(r) = "sleep"
                     THEN Append(wait_times, Sleep(attempt, wait_time(attempt, r)))
                     ELSE wait_times
  /\ CASE loop_step(r) = "return" ->
            /\ result' = [kind |-> "response", status_code |-> r.status_code]
            /\ pc' = "done"
            /\ UNCHANGED attempt
       [] loop_step(r) = "raise" ->
            /\ result' = Raised(loop_raises(r))
            /\ pc' = "done"
            /\ UNCHANGED attempt
       [] OTHER ->
            /\ attempt' = attempt + 1
            /\ IF attempt + 1 < max_retries
                 THEN /\ pc' = "request"
                      /\ UNCHANGED result
                 ELSE /\ pc' = "done"
                      /\ result' = raise_after_loop(last_exception')
  /\ UNCHANGED <<connectors, ai_configured, clients, op, query, response, routed,
                 tasks, merged, ranked, summary_answer, file_cache, clock, callers,
                 fetched>>

RetryNext == \E r \in RequestOutcomes : Attempt(r)

SpecRetry == RetryInit /\ [][RetryNext]_vars

\* the outcomes after which the helper is to wait and try again
Retryable(r) ==
  \/ r.kind = "TimeoutException"
  \/ r.kind = "response" /\ (r.status_code = 429 \/ r.status_code >= 500)

\* the seconds slept after the request of pass n (0: no sleep)
SleptAfter(n) ==
  LET after == {i \in DOMAIN wait_times : wait_times[i].attempt = n}
  IN IF after = {} THEN 0 ELSE wait_times[CHOOSE i \in after : TRUE].seconds

\* C25: _request_with_retry issues at most max_retries requests; it returns
\* on the first 200 response, raises at once on a 4xx other than 429, and
\* after a 429, a 5xx or a timeout waits 2^attempt seconds, or the
\* Retry-After value when a 429 carries a larger one, before the next
\* attempt; it raises once all attempts have failed.
C25_BoundedRetryWithBackoff ==
  /\ Len(calls) <= max_retries
  /\ Len(calls) = Len(responses)
  /\ \A i \in DOMAIN responses :
       LET r == responses[i]
           last == i = Len(responses) /\ pc = "done"
       IN /\ (r.kind = "response" /\ r.status_code = 200) =>
               last /\ result = [kind |-> "response", status_code |-> 200]
          /\ (r.kind = "response" /\ r.status_code \in 400..499
                /\ r.status_code # 429) =>
               last /\ result.kind = "raised" /\ SleptAfter(i - 1) = 0
          /\ Retryable(r) =>
               /\ SleptAfter(i - 1) >= 2 ^ (i - 1)
               /\ SleptAfter(i - 1) =
                    (IF r.retry_after.kind # "absent" /\ r.retry_after.seconds > 2 ^ (i - 1)
                       THEN r.retry_after.seconds ELSE 2 ^ (i - 1))
               /\ i < max_retries => (Len(responses) > i \/ pc = "request")
               /\ (i = max_retries /\ pc = "done") => result.kind = "raised"

----------------------------------------------------------------------------
(* connectors/figma.py: _get_file_data and the module-level cache, under    *)
(* every interleaving of the calls of several callers with the clock        *)

CACHE_TTL_SECONDS == 300

\* the clock stops here
MaxClock == 600

\* the clock advances by one second or by one second less than the TTL, and
\* is at most MaxDrift seconds past a multiple of the latter
MaxDrift == 1

\* the most fetches in one behaviour
MaxFetches == 2

Ticks == {1, CACHE_TTL_SECONDS - 1}

\* a freshness test that also accepts an entry of exactly the TTL
cache_fresh_inclusive(entry, now) ==
  entry # NoEntry /\ now - entry.time <= CACHE_TTL_SECONDS

\* `file_key in _file_cache` and `now - cached_time < CACHE_TTL_SECONDS`
cache_fresh(entry, now) ==
  entry # NoEntry /\ now - entry.time < CACHE_TTL_SECONDS

\* a write that replaces the data and keeps the stored timestamp
cache_store_data_only(cache, key, now, file_data) ==
  [cache EXCEPT ![key] = Entry(IF @ = NoEntry THEN now ELSE @.time, file_data)]

\* `_file_cache[file_key] = (now, file_data)`
cache_store(cache, key, now, file_data) ==
  [cache EXCEPT ![key] = Entry(now, file_data)]

\* a fetch that succeeded: who made it, for which key, the now of its call
\* and the data the server sent
Fetch(c, key, now, file_data) ==
  [caller |-> c, key |-> key, now |-> now, file_data |-> file_data]

CacheInit ==
  /\ FigmaIdle
  /\ pc = "serving"
  /\ op = Op("figma._get_file_data", FIGMA, 0)
  /\ connectors = {FIGMA}
  /\ ai_configured = FALSE
  /\ clients = {FIGMA}
  /\ query = <<>>
  /\ response = Unasked
  /\ routed = NoRoute
  /\ tasks = <<>>
  /\ result = NoResult
  /\ calls = <<>>
  /\ merged = <<>>
  /\ ranked = NoResult
  /\ summary_answer = NotAsked

\* time passes
Tick(d) ==
  /\ clock + d <= MaxClock
  /\ (clock + d) % (CACHE_TTL_SECONDS - 1) <= MaxDrift
  /\ clock' = clock + d
  /\ UNCHANGED <<connectors, ai_configured, clients, pc, op, query, response,
                 routed, tasks, result, calls, merged, ranked, summary_answer,
                 attempt, responses, wait_times, last_exception, file_cache,
                 callers, fetched>>

\* caller c calls _get_file_data(key): it returns the cached data, or goes
\* on to `await self._request_with_retry(...)`
GetFileData(c, key) ==
  /\ callers[c].at # "fetching"
  /\ LET now == clock
         entry == file_cache[key]
     IN IF cache_fresh(entry, now)
          THEN /\ callers' = [callers EXCEPT ![c] =
                    GetFileDataCall("returned", key, now, entry, 0, entry.data)]
               /\ UNCHANGED calls
          ELSE /\ Len(calls) < MaxFetches
               /\ callers' = [callers EXCEPT ![c] =
                    GetFileDataCall("fetching", key, now, entry, 1, -1)]
               /\ calls' = Append(calls, Call(FIGMA, "request"))
  /\ UNCHANGED <<connectors, ai_configured, clients, pc, op, query, response,
                 routed, tasks, result, merged, ranked, summary_answer,
                 attempt, responses, wait_times, last_exception, file_cache,
                 clock, fetched>>

\* the fetch of caller c succeeds: the cache is updated and the fetched
\* data returned (the n-th successful fetch receives the data n)
FetchReturns(c) ==
  /\ callers[c].at = "fetching"
  /\ LET file_data == Len(fetched) + 1
         call == callers[c]
     IN /\ file_cache' = cache_store(file_cache, call.key, call.now, file_data)
        /\ fetched' = Append(fetched, Fetch(c, call.key, call.now, file_data))
        /\ callers' = [callers EXCEPT ![c] =
             GetFileDataCall("returned", call.key, call.now, call.seen,
                             call.requests, file_data)]
  /\ UNCHANGED <<connectors, ai_configured, clients, pc, op, query, response,
                 routed, tasks, result, calls, merged, ranked, summary_answer,
                 attempt, responses, wait_times, last_exception, clock>>

\* _request_with_retry or response.json() raises: the call raises and the
\* cache is left as it is
FetchRaises(c) ==
  /\ callers[c].at = "fetching"
  /\ callers' = [callers EXCEPT ![c].at = "raised"]
  /\ UNCHANGED <<connectors, ai_configured, clients, pc, op, query, response,
                 routed, tasks, result, calls, merged, ranked, summary_answer,
                 attempt, responses, wait_times, last_exception, file_cache,
                 clock, fetched>>

CacheNext ==
  \/ \E d \in Ticks : Tick(d)
  \/ \E c \in Callers, key \in FileKeys : GetFileData(c, key)
  \/ \E c \in Callers : FetchReturns(c)
  \/ \E c \in Callers : FetchRaises(c)

SpecCache == CacheInit /\ [][CacheNext]_vars

----------------------------------------------------------------------------
(* Properties of the Figma file cache *)

\* the calls that have got past the cache check
Called == {c \in Callers : callers[c].at # "idle"}

\* the cache held, when the call looked, an entry for its key younger than
\* 300 seconds
FoundFresh(call) == call.seen # NoEntry /\ call.now - call.seen.time < 300

\* C26: _get_file_data returns the cached data without a request if and
\* only if the cache holds an entry for the key aged strictly less than 300
\* seconds; otherwise it issues a request and, when the fetch succeeds,
\* returns the fetched data, stored with its timestamp under the key.  An
\* entry aged 300 seconds or more is never returned.
C26_CacheHitIffYoungerThanTTL ==
  \A c \in Called :
    LET call == callers[c] IN
      /\ FoundFresh(call) =>
           /\ call.at = "returned"
           /\ call.requests = 0
           /\ call.file_data = call.seen.data
      /\ ~FoundFresh(call) =>
           /\ call.requests = 1
           /\ call.at = "returned" =>
                /\ call.file_data # call.seen.data
                /\ \E i \in DOMAIN fetched :
                     /\ fetched[i] = Fetch(c, call.key, call.now, call.file_data)
                     /\ file_cache[call.key] \in
                          {Entry(fetched[j].now, fetched[j].file_data) :
                             j \in {j \in i..Len(fetched) : fetched[j].key = call.key}}

\* a call that found an entry aged exactly 299 seconds and returned it, and
\* a call that found one aged exactly 300 seconds and fetched
C26_Witness ==
  \E c, d \in Called :
    /\ callers[c].seen # NoEntry
    /\ callers[c].now - callers[c].seen.time = 299
    /\ callers[c].at = "returned"
    /\ callers[c].requests = 0
    /\ callers[d].seen # NoEntry
    /\ callers[d].now - callers[d].seen.time = 300
    /\ callers[d].at = "returned"
    /\ callers[d].requests = 1
    /\ file_cache[callers[d].key] = Entry(callers[d].now, callers[d].file_data)

\* C27: under any interleaving of concurrent _get_file_data calls every
\* cache entry is the (timestamp, data) pair of one successful fetch for
\* that key, never a mix of two; two calls that both miss the same key both
\* fetch and both write, and each returns the data of its own fetch.
C27_EntriesAreWholeFetches ==
  /\ \A key \in FileKeys :
       file_cache[key] # NoEntry =>
         \E i \in DOMAIN fetched :
           /\ fetched[i].key = key
           /\ file_cache[key] = Entry(fetched[i].now, fetched[i].file_data)
  /\ \A c \in Called :
       (callers[c].at = "returned" /\ callers[c].requests = 1) =>
         \E i \in DOMAIN fetched :
           fetched[i] = Fetch(c, callers[c].key, callers[c].now, callers[c].file_data)

\* both callers missed the same key while the other's fetch was under way,
\* both fetched and wrote, and each returned its own data
C27_Witness ==
  /\ callers[1].at = "returned" /\ callers[2].at = "returned"
  /\ callers[1].key = callers[2].key
  /\ callers[1].requests = 1 /\ callers[2].requests = 1
  /\ callers[1].seen = callers[2].seen
  /\ callers[1].file_data # callers[2].file_data
  /\ \E i, j \in DOMAIN fetched :
       /\ fetched[i].caller = 1 /\ fetched[i].file_data = callers[1].file_data
       /\ fetched[j].caller = 2 /\ fetched[j].file_data = callers[2].file_data

\* C30: for every key the stored timestamp never decreases: the entry of a
\* key is never older than one stored for that key before.
C30_StoredTimestampNeverDecreases ==
  \A i \in DOMAIN fetched :
    file_cache[fetched[i].key].time >= fetched[i].now

----------------------------------------------------------------------------
(* connectors/*.py: the life of one connector's network client, under every *)
(* sequence of uses and close() calls                                       *)

\* the most operations on the connector in one behaviour
MaxClientOps == 4

\* the operations the connector has received: the requests and the closes
ClientOps ==
  LET IsOp(c) == c.method \in {"request", "close"} IN SelectSeq(calls, IsOp)

\* a _get_client that builds a client on every call
creates_client_always(held, src) == TRUE

\* _get_client: `if self._client is None:` build the client
creates_client(held, src) == src \notin held

\* __init__ sets `self._client = None`
ClientInit ==
  /\ FigmaIdle
  /\ \E s \in AppSource : op = Op("connector", s, 0)
  /\ connectors = {op.source}
  /\ clients = {}
  /\ pc = "idle"
  /\ ai_configured = FALSE
  /\ query = <<>>
  /\ response = Unasked
  /\ routed = NoRoute
  /\ tasks = <<>>
  /\ result = NoResult
  /\ calls = <<>>
  /\ merged = <<>>
  /\ ranked = NoResult
  /\ summary_answer = NotAsked

\* a method of the connector gets the client and sends a request
UseClient ==
  /\ Len(ClientOps) < MaxClientOps
  /\ calls' = calls
       \o (IF creates_client(clients, op.source)
            THEN <<Call(op.source, "AsyncClient")>> ELSE <<>>)
       \o <<Call(op.source, "request")>>
  /\ clients' = clients \cup {op.source}
  /\ result' = [kind |-> "response"]
  /\ UNCHANGED <<connectors, ai_configured, pc, op, query, response, routed,
                 tasks, merged, ranked, summary_answer>>
  /\ UNCHANGED figma_vars

\* close(): `if self._client:` await its aclose(), which returns or raises,
\* and then set `self._client = None`
CloseClient(raises) ==
  /\ Len(ClientOps) < MaxClientOps
  /\ IF op.source \notin clients
       THEN /\ ~raises
            /\ calls' = Append(calls, Call(op.source, "close"))
            /\ result' = [kind |-> "None"]
            /\ UNCHANGED clients
     ELSE IF raises
       THEN /\ calls' = calls \o <<Call(op.source, "close"),
                                   Call(op.source, "aclose raised")>>
            /\ result' = Raised("CloseError")
            /\ UNCHANGED clients
       ELSE /\ calls' = calls \o <<Call(op.source, "close"),
                                   Call(op.source, "aclose")>>
            /\ result' = [kind |-> "None"]
            /\ clients' = clients \ {op.source}
  /\ UNCHANGED <<connectors, ai_configured, pc, op, query, response, routed,
                 tasks, merged, ranked, summary_answer>>
  /\ UNCHANGED figma_vars

ClientNext ==
  \/ UseClient
  \/ \E raises \in BOOLEAN : CloseClient(raises)

SpecClient == ClientInit /\ [][ClientNext]_vars

\* the number of calls of the method m the log holds
Logged(m) == Cardinality({i \in DOMAIN calls : calls[i].method = m})

\* C28: the client is created on first use and never at construction, at
\* most one client exists per connector, and close() is idempotent: a
\* close() on a connector without a client (before any use, or right after
\* a close() that returned) does not raise and leaves no client; a later
\* use creates a client again.
C28_LazyClientIdempotentClose ==
  /\ calls = <<>> => clients = {}
  /\ Logged("AsyncClient") - Logged("aclose")
       = (IF op.source \in clients THEN 1 ELSE 0)
  /\ \A i \in DOMAIN calls :
       calls[i].method = "AsyncClient" =>
         i < Len(calls) /\ calls[i + 1].method = "request"
  /\ \A i \in DOMAIN calls :
       (calls[i].method = "close"
          /\ (i = 1 \/ calls[i - 1].method = "aclose")) =>
         /\ i = Len(calls) \/ calls[i + 1].method \in {"close", "AsyncClient"}
         /\ i = Len(calls) => (result = [kind |-> "None"] /\ clients = {})

\* used, closed, closed again, used again: two clients were built in all
\* and one is held
C28_Witness ==
  /\ calls = <<Call(op.source, "AsyncClient"), Call(op.source, "request"),
               Call(op.source, "close"), Call(op.source, "aclose"),
               Call(op.source, "close"),
               Call(op.source, "AsyncClient"), Call(op.source, "request")>>
  /\ clients = {op.source}
====
